---- MODULE Spec2Model ----
(***************************************************************************)
(* Model of the tiny_bit_flags! macro (src/src/lib.rs).                    *)
(*                                                                         *)
(* The macro turns a declaration                                           *)
(*     struct BitFlags: T { const Flag = value; ... }                      *)
(* into a tuple struct BitFlags(T) and, for every flag, a constant and the *)
(* three methods is_<flag>, set_<flag>, clear_<flag>.  The model has two   *)
(* parts: the expansion of a declaration into the items of the impl block, *)
(* and the behaviour of a value of the generated type under its methods.   *)
(***************************************************************************)
EXTENDS Integers, Sequences, FiniteSets

VARIABLES Flag, value, items, phase, r, self0, hist, lastq

vars == <<Flag, value, items, phase, r, self0, hist, lastq>>

(* ------------------------------ bounds --------------------------------- *)

\* width in bits of the backing type T (u8/u16/u32/u64 in the program)
BitWidth == 2

\* number of flags of the declared type
NFlags == 2

\* number of set_/clear_ calls followed on one value
MaxOps == 2

\* number of flags of a declaration whose expansion is followed
GenFlags == 2

(* --------------------------- the backing type -------------------------- *)

\* the values of T: 0 .. 2^BitWidth - 1
T == 0 .. (2 ^ BitWidth - 1)

RECURSIVE AndN(_, _, _)
AndN(a, b, n) ==
    IF n = 0 THEN 0
    ELSE (a % 2) * (b % 2) + 2 * AndN(a \div 2, b \div 2, n - 1)

RECURSIVE OrN(_, _, _)
OrN(a, b, n) ==
    IF n = 0 THEN 0
    ELSE (IF (a % 2) + (b % 2) > 0 THEN 1 ELSE 0)
         + 2 * OrN(a \div 2, b \div 2, n - 1)

RECURSIVE NotN(_, _)
NotN(a, n) ==
    IF n = 0 THEN 0
    ELSE (1 - (a % 2)) + 2 * NotN(a \div 2, n - 1)

\* a & b on T
And(a, b) == AndN(a, b, BitWidth)

\* a | b on T
Or(a, b) == OrN(a, b, BitWidth)

\* !a on T: every one of the BitWidth bits is flipped
Not(a) == NotN(a, BitWidth)

(* ------------------------- the generated methods ----------------------- *)

\* faulty variant: an all-bits (equality) test instead of the any-bit test
is_Flag_all(self, v) == And(self, v) = v

\* self.0 & $value != 0
is_Flag(self, v) == And(self, v) # 0

\* faulty variant: the mask is added instead of or-ed
set_Flag_add(self, v) == self + v

\* faulty variant: the mask is toggled (xor) instead of or-ed
set_Flag_xor(self, v) == Or(self, v) - And(self, v)

\* self.0 |= $value
set_Flag(self, v) == Or(self, v)

\* faulty variant: the complement is forgotten
clear_Flag_keep(self, v) == And(self, v)

\* faulty variant: the whole value is reset when the flag is present
clear_Flag_reset(self, v) == IF And(self, v) # 0 THEN 0 ELSE self

\* self.0 &= !$value
clear_Flag(self, v) == And(self, Not(v))

(* ----------------------------- the expansion --------------------------- *)

Upper == <<"A", "B", "C", "D", "E", "F", "G", "H", "I", "J", "K", "L", "M",
           "N", "O", "P", "Q", "R", "S", "T", "U", "V", "W", "X", "Y", "Z">>

Lower == <<"a", "b", "c", "d", "e", "f", "g", "h", "i", "j", "k", "l", "m",
           "n", "o", "p", "q", "r", "s", "t", "u", "v", "w", "x", "y", "z">>

\* lower-casing of one character
lower_char(c) ==
    IF \E k \in 1 .. Len(Upper) : Upper[k] = c
    THEN Lower[CHOOSE k \in 1 .. Len(Upper) : Upper[k] = c]
    ELSE c

\* faulty variant: the flag name is pasted as written
lower_asis(name) == name

\* $Flag:lower : an identifier is a sequence of characters
lower(name) == [k \in 1 .. Len(name) |-> lower_char(name[k])]

\* [<is_ $Flag:lower>], [<set_ $Flag:lower>], [<clear_ $Flag:lower>]
is_name(name) == <<"i", "s", "_">> \o lower(name)
set_name(name) == <<"s", "e", "t", "_">> \o lower(name)
clear_name(name) == <<"c", "l", "e", "a", "r", "_">> \o lower(name)

\* the four items one flag contributes to the impl block
FlagItems(name, v) ==
    << [kind |-> "const", name |-> name, value |-> v],
       [kind |-> "is", name |-> is_name(name), value |-> v],
       [kind |-> "set", name |-> set_name(name), value |-> v],
       [kind |-> "clear", name |-> clear_name(name), value |-> v] >>

RECURSIVE Expansion(_, _)
\* the items of  impl $BitFlags { $( ... )* } , in declaration order
Expansion(names, values) ==
    IF Len(names) = 0 THEN <<>>
    ELSE FlagItems(Head(names), Head(values))
         \o Expansion(Tail(names), Tail(values))

\* two associated items of one impl block carry the same name
Duplicates(its) ==
    \E a, b \in 1 .. Len(its) : a # b /\ its[a].name = its[b].name

WRITABLE == <<"W", "R", "I", "T", "A", "B", "L", "E">>
EXECUTABLE == <<"E", "X", "E", "C", "U", "T", "A", "B", "L", "E">>
ALL == <<"A", "L", "L">>
READABLE == <<"R", "E", "A", "D", "A", "B", "L", "E">>
FOO == <<"F", "O", "O">>
Foo == <<"F", "o", "o">>
BAR == <<"B", "A", "R">>

\* flag names of the declared type of the value part (pairwise distinct
\* after lower-casing)
FlagNames == <<WRITABLE, EXECUTABLE, ALL, READABLE>>

\* flag names a declaration of the expansion part draws from
GenNames == {FOO, Foo, BAR}

NoQuery == [flag |-> 0, result |-> FALSE, before |-> 0]

(* ------------------------- values of the type -------------------------- *)

\* state after the macro has generated a type with NFlags flags of
\* arbitrary masks; no value of the type exists yet.  The methods of a flag
\* depend on that flag's mask alone, so a declaration stands for all its
\* reorderings and is taken with its masks in non-decreasing order.
Init ==
    /\ Flag = [i \in 1 .. NFlags |-> FlagNames[i]]
    /\ value \in [1 .. NFlags -> T]
    /\ \A i \in 1 .. NFlags - 1 : value[i] <= value[i + 1]
    /\ items = Expansion(Flag, value)
    /\ phase = "accepted"
    /\ r = 0
    /\ self0 = 0
    /\ hist = <<>>
    /\ lastq = NoQuery

\* let f = BitFlags(x);
New(x) ==
    /\ phase = "accepted"
    /\ phase' = "live"
    /\ r' = x
    /\ self0' = x
    /\ UNCHANGED <<Flag, value, items, hist, lastq>>

\* f.is_<flag>() for the i-th flag
Is(i) ==
    /\ phase = "live"
    /\ lastq' = [flag |-> i, result |-> is_Flag(self0, value[i]),
                 before |-> self0]
    /\ UNCHANGED <<Flag, value, items, phase, r, self0, hist>>

\* f.set_<flag>() for the i-th flag
Set(i) ==
    /\ phase = "live"
    /\ Len(hist) < MaxOps
    /\ self0' = set_Flag(self0, value[i])
    /\ hist' = Append(hist, [op |-> "set", flag |-> i,
                             before |-> self0, after |-> self0'])
    /\ lastq' = NoQuery
    /\ UNCHANGED <<Flag, value, items, phase, r>>

\* f.clear_<flag>() for the i-th flag
Clear(i) ==
    /\ phase = "live"
    /\ Len(hist) < MaxOps
    /\ self0' = clear_Flag(self0, value[i])
    /\ hist' = Append(hist, [op |-> "clear", flag |-> i,
                             before |-> self0, after |-> self0'])
    /\ lastq' = NoQuery
    /\ UNCHANGED <<Flag, value, items, phase, r>>

Next ==
    \/ \E x \in T : New(x)
    \/ \E i \in 1 .. NFlags : Is(i)
    \/ \E i \in 1 .. NFlags : Set(i)
    \/ \E i \in 1 .. NFlags : Clear(i)

Spec == Init /\ [][Next]_vars

(* ---------------------- expansion of a declaration --------------------- *)

\* a declaration of 1 .. GenFlags flags as handed to the macro
InitGen ==
    /\ \E n \in 1 .. GenFlags :
          /\ Flag \in [1 .. n -> GenNames]
          /\ value \in [1 .. n -> T]
    /\ items = <<>>
    /\ phase = "source"
    /\ r = 0
    /\ self0 = 0
    /\ hist = <<>>
    /\ lastq = NoQuery

\* the macro transcribes the declaration into the struct and its impl block
Expand ==
    /\ phase = "source"
    /\ items' = Expansion(Flag, value)
    /\ phase' = "expanded"
    /\ UNCHANGED <<Flag, value, r, self0, hist, lastq>>

\* the impl block is compiled: associated items of one impl block must have
\* distinct names, otherwise the build stops with a duplicate-definition
\* error and no type exists
Compile ==
    /\ phase = "expanded"
    /\ phase' = IF Duplicates(items) THEN "rejected" ELSE "accepted"
    /\ UNCHANGED <<Flag, value, items, r, self0, hist, lastq>>

NextGen == Expand \/ Compile

SpecGen == InitGen /\ [][NextGen]_vars

(* ------------------------------ properties ----------------------------- *)

\* bit k of x
Bit(x, k) == (x \div (2 ^ k)) % 2

Bits == 0 .. (BitWidth - 1)

\* x and y have a bit in common
Shares(x, y) == \E k \in Bits : Bit(x, k) = 1 /\ Bit(y, k) = 1

\* number of bits set in x
Ones(x) == Cardinality({k \in Bits : Bit(x, k) = 1})

Flags == 1 .. NFlags

Queried == lastq.flag # 0

LastOp == hist[Len(hist)]

\* C1: is_Fi() on a value holding raw returns true exactly when raw and vi
\* have a bit in common, and the call leaves the stored value unchanged.
C1_IsAnyBit ==
    Queried =>
        /\ lastq.result = Shares(lastq.before, value[lastq.flag])
        /\ self0 = lastq.before

C1_Witness ==
    /\ Queried
    /\ lastq.result
    /\ Len(hist) = 1
    /\ self0 # r

\* C2 as stated: after set_Fi() the raw value is (before | vi) and is_Fi()
\* returns true, whatever the mask vi.
C2_Original ==
    (Len(hist) > 0 /\ LastOp.op = "set") =>
        /\ \A k \in Bits :
              Bit(self0, k) = IF Bit(LastOp.before, k) = 1
                                 \/ Bit(value[LastOp.flag], k) = 1
                              THEN 1 ELSE 0
        /\ self0 \in T
        /\ (lastq.flag = LastOp.flag => lastq.result)

\* C2 amended: after set_Fi() the raw value is (before | vi), and is_Fi()
\* then returns true exactly when vi is not zero.
C2_SetOr ==
    (Len(hist) > 0 /\ LastOp.op = "set") =>
        /\ \A k \in Bits :
              Bit(self0, k) = IF Bit(LastOp.before, k) = 1
                                 \/ Bit(value[LastOp.flag], k) = 1
                              THEN 1 ELSE 0
        /\ self0 \in T
        /\ (lastq.flag = LastOp.flag =>
               lastq.result = (value[LastOp.flag] # 0))

C2_Witness ==
    /\ Len(hist) = 1
    /\ LastOp.op = "set"
    /\ lastq.flag = LastOp.flag
    /\ lastq.result
    /\ ~ Shares(r, value[LastOp.flag])

\* C3: after clear_Fi() the raw value is (before & ~vi), the complement
\* taken within the width, and is_Fi() then returns false.
C3_ClearAndNot ==
    (Len(hist) > 0 /\ LastOp.op = "clear") =>
        /\ \A k \in Bits :
              Bit(self0, k) = IF Bit(value[LastOp.flag], k) = 1
                              THEN 0 ELSE Bit(LastOp.before, k)
        /\ self0 \in T
        /\ (lastq.flag = LastOp.flag => ~ lastq.result)

C3_Witness ==
    /\ Len(hist) = 1
    /\ LastOp.op = "clear"
    /\ lastq.flag = LastOp.flag
    /\ Shares(r, value[LastOp.flag])
    /\ self0 # 0
    /\ \E j \in Flags : j # LastOp.flag /\ Shares(r, value[j])

\* C4: a second set_Fi() right after set_Fi() leaves the raw value as the
\* first call left it, and likewise for clear_Fi().
C4_Idempotent ==
    Len(hist) >= 2 =>
        LET a == hist[Len(hist) - 1]
            b == LastOp
        IN  (b.flag = a.flag /\ b.op = a.op) =>
                /\ b.after = a.after
                /\ self0 = a.after

C4_Witness ==
    /\ Len(hist) = 2
    /\ hist[1].flag = hist[2].flag
    /\ hist[1].op = hist[2].op
    /\ hist[1].op = "set"
    /\ hist[1].before # hist[1].after
    /\ self0 = hist[1].after

\* C5: is_Fi() is an any-bit test: it returns true for every raw value that
\* shares a bit with vi, also when not all bits of vi are present; hence
\* after set_Fj() of an overlapping flag is_Fi() is true although set_Fi()
\* was not called.
C5_AnyBitNotAll ==
    /\ (Queried /\ Shares(lastq.before, value[lastq.flag])) => lastq.result
    /\ (/\ Queried
        /\ Len(hist) > 0
        /\ LastOp.op = "set"
        /\ Shares(value[LastOp.flag], value[lastq.flag])) => lastq.result

C5_Witness ==
    /\ Queried
    /\ Ones(value[lastq.flag]) > 1
    /\ lastq.result
    /\ And(self0, value[lastq.flag]) # value[lastq.flag]
    /\ Len(hist) = 1
    /\ LastOp.op = "set"
    /\ LastOp.flag # lastq.flag
    /\ ~ Shares(r, value[lastq.flag])

\* the declared masks are non-zero and pairwise disjoint
Disjoint ==
    /\ \A i \in Flags : value[i] # 0
    /\ \A i, j \in Flags : i # j => ~ Shares(value[i], value[j])

\* positions of hist at which a method of flag i was called
CallsOn(i) == {n \in 1 .. Len(hist) : hist[n].flag = i}

LastCallOn(i) == hist[CHOOSE n \in CallsOn(i) : \A m \in CallsOn(i) : m <= n]

Call(o, i, b, a) == [op |-> o, flag |-> i, before |-> b, after |-> a]

\* C6: with non-zero pairwise disjoint masks, is_Fi() is true iff the most
\* recent set_Fi/clear_Fi call was set_Fi, or there was none and the initial
\* raw value has a bit of vi; calls on other flags do not change the answer.
\* Instance WRITABLE = 1, EXECUTABLE = 2 from raw 1: is_writable, not
\* is_executable; clear_writable gives raw 0; set_executable gives raw 2.
C6_LastCallDecides ==
    /\ (Disjoint /\ Queried) =>
          lastq.result = IF CallsOn(lastq.flag) # {}
                         THEN LastCallOn(lastq.flag).op = "set"
                         ELSE Shares(r, value[lastq.flag])
    /\ (phase = "live" /\ value[1] = 1 /\ value[2] = 2 /\ r = 1) =>
          /\ hist = <<>> =>
                /\ lastq.flag = 1 => lastq.result
                /\ lastq.flag = 2 => ~ lastq.result
          /\ (Len(hist) >= 1 /\ hist[1].op = "clear" /\ hist[1].flag = 1) =>
                /\ hist[1].after = 0
                /\ (Len(hist) = 1 /\ lastq.flag = 1) => ~ lastq.result
          /\ (/\ Len(hist) >= 2
              /\ hist[1].op = "clear" /\ hist[1].flag = 1
              /\ hist[2].op = "set" /\ hist[2].flag = 2) =>
                /\ hist[2].after = 2
                /\ (Len(hist) = 2 /\ lastq.flag = 2) => lastq.result

C6_Witness ==
    /\ value[1] = 1
    /\ value[2] = 2
    /\ Disjoint
    /\ r = 1
    /\ Len(hist) = 2
    /\ hist[1] = Call("clear", 1, 1, 0)
    /\ hist[2] = Call("set", 2, 0, 2)
    /\ lastq = [flag |-> 2, result |-> TRUE, before |-> 2]

\* C7: construction stores the raw value as given, whatever it is; every
\* method can then be called on every state; the stored value stays within
\* 0 .. 2^w - 1.
C7_TotalAndClosed ==
    /\ self0 \in T
    /\ r \in T
    /\ Len(hist) > 0 => (LastOp.before \in T /\ LastOp.after \in T)
    /\ (phase = "live" /\ hist = <<>>) => self0 = r
    /\ phase = "accepted" => \A x \in T : ENABLED New(x)
    /\ phase = "live" => \A i \in Flags : ENABLED Is(i)
    /\ (phase = "live" /\ Len(hist) < MaxOps) =>
          \A i \in Flags : ENABLED Set(i) /\ ENABLED Clear(i)

C7_Witness ==
    /\ phase = "live"
    /\ r = 2 ^ BitWidth - 1
    /\ \A i \in Flags : ~ Shares(r, value[i]) \/ value[i] = r
    /\ \E i \in Flags : value[i] = r
    /\ Len(hist) = 2
    /\ hist[1].op = "clear"
    /\ hist[2].op = "set"
    /\ hist[1].after = 0
    /\ self0 = r

\* union of the declared masks, as a set of bit positions
Declared == {k \in Bits : \E i \in Flags : Bit(value[i], k) = 1}

\* C9: set_Fi() and clear_Fi() change only bit positions of vi; so the bits
\* outside all declared masks are those given at construction.
C9_Frame ==
    /\ Len(hist) > 0 =>
          /\ LastOp.after = self0
          /\ \A k \in Bits :
                Bit(value[LastOp.flag], k) = 0 =>
                    Bit(LastOp.after, k) = Bit(LastOp.before, k)
    /\ phase = "live" =>
          \A k \in Bits \ Declared : Bit(self0, k) = Bit(r, k)

C9_Witness ==
    /\ Len(hist) = 2
    /\ hist[1].before # hist[1].after
    /\ hist[2].before # hist[2].after
    /\ hist[1].flag # hist[2].flag
    /\ \E k \in Bits \ Declared : Bit(r, k) = 1

\* C10: two set_ calls commute, two clear_ calls commute; a set_Fi and a
\* clear_Fj commute exactly when vi and vj are disjoint; with overlapping
\* masks the later call decides the shared bits, and set_Fi then clear_Fi
\* gives (before & ~vi), which differs from before when it had a bit of vi.
C10_Commute ==
    Len(hist) >= 2 =>
        LET a == hist[Len(hist) - 1]
            b == LastOp
            base == a.before
            va == value[a.flag]
            vb == value[b.flag]
            swapped ==
                IF b.op = "set"
                THEN IF a.op = "set"
                     THEN set_Flag(set_Flag(base, vb), va)
                     ELSE clear_Flag(set_Flag(base, vb), va)
                ELSE IF a.op = "set"
                     THEN set_Flag(clear_Flag(base, vb), va)
                     ELSE clear_Flag(clear_Flag(base, vb), va)
        IN  /\ a.op = b.op => b.after = swapped
            /\ a.op # b.op => ((b.after = swapped) <=> ~ Shares(va, vb))
            /\ \A k \in Bits :
                  (Bit(va, k) = 1 /\ Bit(vb, k) = 1) =>
                      Bit(b.after, k) = IF b.op = "set" THEN 1 ELSE 0
            /\ (a.op = "set" /\ b.op = "clear" /\ a.flag = b.flag) =>
                  /\ \A k \in Bits :
                        Bit(b.after, k) = IF Bit(va, k) = 1
                                          THEN 0 ELSE Bit(base, k)
                  /\ Shares(base, va) => b.after # base

C10_Witness ==
    /\ Len(hist) = 2
    /\ hist[1].op = "set"
    /\ hist[2].op = "clear"
    /\ hist[1].flag # hist[2].flag
    /\ Shares(value[hist[1].flag], value[hist[2].flag])
    /\ self0 # set_Flag(clear_Flag(r, value[hist[2].flag]),
                        value[hist[1].flag])
    /\ self0 # r

(* ---------------------- properties of the expansion -------------------- *)

\* characters c and d are the same letter up to case
SameLetter(c, d) ==
    \/ c = d
    \/ \E k \in 1 .. Len(Upper) : {c, d} = {Upper[k], Lower[k]}

\* names m and n are equal up to case
Folded(m, n) ==
    /\ Len(m) = Len(n)
    /\ \A k \in 1 .. Len(m) : SameLetter(m[k], n[k])

\* two flags of the declaration have names that are equal up to case
Collision ==
    \E a, b \in DOMAIN Flag : a < b /\ Folded(Flag[a], Flag[b])

Compiled == phase \in {"accepted", "rejected"}

\* the items of the impl block that define method nm
Defs(nm) == {n \in 1 .. Len(items) : items[n].name = nm}

\* C8 as stated: when two flags fold to the same method name the declaration
\* is accepted and the later flag's methods replace the earlier's, so the
\* method name is defined once, with the later flag's mask.
C8_Original ==
    (Compiled /\ Collision) =>
        /\ phase = "accepted"
        /\ \A a, b \in DOMAIN Flag :
              (a < b /\ Folded(Flag[a], Flag[b])
                 /\ \A c \in DOMAIN Flag : c > b => ~ Folded(Flag[b], Flag[c]))
                 => \A n \in Defs(<<"i", "s", "_">> \o lower(Flag[b])) :
                        items[n].value = value[b]

\* C8 amended: method names are the lower-cased flag names; when two flags
\* fold to the same method name the impl block holds both flags' methods
\* under that one name, each with its own flag's mask (nothing is replaced),
\* and the declaration is not accepted: the build stops on the duplicate
\* definitions.
C8_CollisionRejected ==
    phase # "source" =>
        /\ Len(items) = 4 * Len(Flag)
        /\ \A a \in DOMAIN Flag :
              LET base == 4 * (a - 1)
              IN  /\ items[base + 1].name = Flag[a]
                  /\ \A m \in 2 .. 4 :
                        LET nm == items[base + m].name
                            p == Len(nm) - Len(Flag[a])
                        IN  /\ p = (IF m = 2 THEN 3 ELSE IF m = 3 THEN 4 ELSE 6)
                            /\ Folded(SubSeq(nm, p + 1, Len(nm)), Flag[a])
                            /\ \A k \in p + 1 .. Len(nm) :
                                  \A u \in 1 .. Len(Upper) : nm[k] # Upper[u]
                  /\ \A m \in 1 .. 4 : items[base + m].value = value[a]
        /\ Collision => phase # "accepted"
        /\ (Compiled /\ ~ Collision
              /\ \A a, b \in DOMAIN Flag : a # b => Flag[a] # Flag[b])
              => phase = "accepted"

C8_Witness ==
    /\ phase = "rejected"
    /\ Len(Flag) = 2
    /\ Flag[1] = FOO
    /\ Flag[2] = Foo
    /\ value[1] # value[2]
    /\ Cardinality(Defs(<<"i", "s", "_", "f", "o", "o">>)) = 2

====
